---- MODULE Spec2Model ----
(***************************************************************************)
(* Token lifecycle of the educational authentication server                *)
(* (token/auth_server_fastapi.py): issuance at /login, validation by the   *)
(* get_current_user gate, revocation at /logout and the lazy purge of      *)
(* /admin/tokens; its client (token/auth_client_example.py) and the GUI    *)
(* application with its worker thread (pyqt_crud_app2.py).                 *)
(*                                                                         *)
(* The specifications of the server share its actions:                     *)
(*  - Spec: the endpoints that read or write the registry, one request at  *)
(*    a time, with the clock advancing between and inside requests;        *)
(*  - ApiSpec: every endpoint (POST /posts and /health too), one request   *)
(*    at a time, the clock advancing inside requests only;                 *)
(*  - ConcSpec: several requests in flight, the handler bodies split into  *)
(*    their registry statements.                                           *)
(* ClientSpec drives the same handlers with the requests of one ApiClient, *)
(* and GuiSpec (GuiFairSpec with fairness) is the GUI application, which   *)
(* shares no state with the server.  PostsSpec is the concurrent handling  *)
(* of POST /posts, and WorkerSpec calls ApiWorker.set_operation with any   *)
(* operation name.                                                         *)
(*                                                                         *)
(* Modelling conventions                                                   *)
(*  - The clock (datetime.now()) is an integer that only advances; one     *)
(*    tick is 30 minutes, so the 30 minute TTL is 1 tick.  The clock may   *)
(*    advance between two reads inside one handler (the skew).             *)
(*  - A token string is the sequence of its '.'-separated segments, so     *)
(*    rsplit('.', 1) is "all segments but the last" and "the last".        *)
(*  - sha256 and secrets.token_hex are idealised: sha256(x)[:16] is a      *)
(*    symbolic term over (key, x), equal only for equal arguments, and     *)
(*    token_hex never returns the same value twice.                        *)
(*  - The handlers are async functions without an await: each runs to      *)
(*    its return before the next request is taken up.  A handler is one    *)
(*    step that leaves its response in resp; Respond sends it and makes    *)
(*    the server idle again.                                               *)
(*  - base64(json(dict)) is a segment of kind "json_dict"; the other       *)
(*    kinds are segments whose decoding fails in the way their name says.  *)
(***************************************************************************)
EXTENDS Integers, Sequences, FiniteSets, Bags, TLC

VARIABLES
    now,            \* datetime.now(), in ticks
    active_tokens,  \* the module-level dict: token string -> {username, expires_at}
    random_count,   \* how many values secrets.token_hex has handed out
    issued,         \* history: token string -> clock value when /login returned it
    revoked,        \* history: token strings removed by a completed /logout
    fake_posts_db,  \* the module-level list of posts
    resp,           \* the response being sent, Idle between two requests
    tasks,          \* concurrent handling: the requests waiting, a bag
    running,        \* concurrent handling: the coroutine on the event loop
    client,         \* the ApiClient object: its fields and its session headers
    call,           \* the ApiClient method being executed, and what it returned
    buttons_enabled,   \* GUI: isEnabled() of the five operation buttons
    progress_visible,  \* GUI: isVisible() of the progress bar
    status_label,      \* GUI: the text of the status label
    message_box,       \* GUI: the title of the last message box shown
    operation_method,  \* GUI worker: ApiWorker.operation_method
    data,              \* GUI worker: ApiWorker.data
    thread,            \* GUI worker: where the QThread is in run()
    events,            \* GUI: the signals queued for the main thread's event loop
    worker_call        \* GUI worker: the last set_operation call and what it raised

server_vars == <<now, active_tokens, random_count, issued, revoked, fake_posts_db,
                 resp, tasks, running>>

client_vars == <<client, call>>

gui_vars == <<buttons_enabled, progress_visible, status_label, message_box,
              operation_method, data, thread, events, worker_call>>

vars == <<server_vars, client_vars, gui_vars>>

----------------------------------------------------------------------------
(* Bounds of the model *)

MaxTime == 2
MaxLogins == 2
MaxPosts == 3
MaxTasks == 2

\* how far the clock may advance between two reads inside one handler
Skews == {0, 1}

(* Program constants *)

ACCESS_TOKEN_EXPIRE_MINUTES == 30

TTL == ACCESS_TOKEN_EXPIRE_MINUTES \div 30

SECRET_KEY == "secret_key_for_education"

None == "None"

TypeError == "TypeError"

NoToken == << >>

EmptyMap == [k \in {} |-> 0]

----------------------------------------------------------------------------
(* Credential store *)

simple_hash(password) == [sha256 |-> password]

verify_password(plain_password, hashed_password) ==
    simple_hash(plain_password) = hashed_password

NoUser == [id |-> 0, username |-> None, hashed_password |-> simple_hash(None)]

fake_users_db ==
    [u \in {"student", "teacher"} |->
        IF u = "student"
        THEN [id |-> 1, username |-> "student",
              hashed_password |-> simple_hash("password123")]
        ELSE [id |-> 2, username |-> "teacher",
              hashed_password |-> simple_hash("secret456")]]

get_user(username) ==
    IF username \in DOMAIN fake_users_db THEN fake_users_db[username] ELSE NoUser

authenticate_user(username, password) ==
    LET user == get_user(username) IN
    IF user = NoUser THEN NoUser
    ELSE IF ~verify_password(password, user.hashed_password) THEN NoUser
    ELSE user

----------------------------------------------------------------------------
(* Token strings *)

isoformat(t) == [iso |-> t]

BadIso == [iso |-> -1]

\* datetime.fromisoformat: the datetime of a string isoformat wrote
fromisoformat(s) == s.iso

\* hashlib.sha256(f"{token_part}{key}".encode()).hexdigest()[:16]
Signature(token_part, key) == [sha256_16 |-> token_part, key |-> key]

Sign(token_part) == Signature(token_part, SECRET_KEY)

\* base64.b64encode(json.dumps(token_data).encode()).decode()
b64json(token_data) ==
    [kind |-> "json_dict", username |-> token_data.username,
     created_at |-> token_data.created_at, expires_at |-> token_data.expires_at,
     random |-> token_data.random]

\* a payload segment that is not the encoding of a token_data dict
Junk(kind) ==
    [kind |-> kind, username |-> None, created_at |-> BadIso,
     expires_at |-> BadIso, random |-> 0]

JunkKinds == {"not_base64", "not_json", "json_list", "no_expires_at", "bad_iso"}


\* create_simple_token signing with a key validate_token does not use
create_simple_token_other_key(username, created_now, expires_now, random) ==
    LET token_data == [username |-> username,
                       created_at |-> isoformat(created_now),
                       expires_at |-> isoformat(expires_now + TTL),
                       random |-> random]
        token_bytes == b64json(token_data)
        signature == Signature(<<token_bytes>>, "secret_key")
    IN [final_token |-> <<token_bytes, signature>>,
        expires_at |-> fromisoformat(token_data.expires_at)]

\* create_simple_token with a constant in place of secrets.token_hex(16)
create_simple_token_fixed_random(username, created_now, expires_now, random) ==
    LET token_data == [username |-> username,
                       created_at |-> isoformat(created_now),
                       expires_at |-> isoformat(expires_now + TTL),
                       random |-> 0]
        token_bytes == b64json(token_data)
        signature == Sign(<<token_bytes>>)
    IN [final_token |-> <<token_bytes, signature>>,
        expires_at |-> fromisoformat(token_data.expires_at)]

create_simple_token(username, created_now, expires_now, random) ==
    LET token_data == [username |-> username,
                       created_at |-> isoformat(created_now),
                       expires_at |-> isoformat(expires_now + TTL),
                       random |-> random]
        token_bytes == b64json(token_data)
        signature == Sign(<<token_bytes>>)
    IN [final_token |-> <<token_bytes, signature>>,
        expires_at |-> fromisoformat(token_data.expires_at)]

\* what the body of validate_token's try block runs into while decoding:
\* "none", an exception the except clause catches, or one it does not
decode_error(token_part) ==
    IF Len(token_part) # 1 THEN "ValueError"
    ELSE CASE token_part[1].kind = "json_dict" -> "none"
           [] token_part[1].kind = "not_base64" -> "ValueError"
           [] token_part[1].kind = "not_json" -> "JSONDecodeError"
           [] token_part[1].kind = "json_list" -> "TypeError"
           [] token_part[1].kind = "no_expires_at" -> "KeyError"
           [] token_part[1].kind = "bad_iso" -> "ValueError"
           [] OTHER -> "ValueError"

CaughtErrors == {"ValueError", "KeyError", "JSONDecodeError"}

\* validate_token without the active_tokens lookup
validate_return_no_registry(token, registry, clock) ==
    IF Len(token) < 2 THEN "no_separator"
    ELSE LET token_part == SubSeq(token, 1, Len(token) - 1)
             signature == token[Len(token)]
             expected_signature == Sign(token_part)
         IN IF signature # expected_signature THEN "bad_signature"
            ELSE IF decode_error(token_part) \in CaughtErrors THEN "malformed"
            ELSE IF decode_error(token_part) # "none" THEN "raise"
            ELSE IF clock > fromisoformat(token_part[1].expires_at) THEN "expired"
            ELSE "ok"

\* validate_token without the expiry comparison
validate_return_no_expiry(token, registry, clock) ==
    IF Len(token) < 2 THEN "no_separator"
    ELSE LET token_part == SubSeq(token, 1, Len(token) - 1)
             signature == token[Len(token)]
             expected_signature == Sign(token_part)
         IN IF signature # expected_signature THEN "bad_signature"
            ELSE IF decode_error(token_part) \in CaughtErrors THEN "malformed"
            ELSE IF decode_error(token_part) # "none" THEN "raise"
            ELSE IF token \notin DOMAIN registry THEN "not_active"
            ELSE "ok"

\* validate_token decoding the payload before it verifies the signature
validate_return_decode_first(token, registry, clock) ==
    IF Len(token) < 2 THEN "no_separator"
    ELSE LET token_part == SubSeq(token, 1, Len(token) - 1)
             signature == token[Len(token)]
             expected_signature == Sign(token_part)
         IN IF decode_error(token_part) \in CaughtErrors THEN "malformed"
            ELSE IF decode_error(token_part) # "none" THEN "raise"
            ELSE IF clock > fromisoformat(token_part[1].expires_at) THEN "expired"
            ELSE IF signature # expected_signature THEN "bad_signature"
            ELSE IF token \notin DOMAIN registry THEN "not_active"
            ELSE "ok"

\* the return statement (or escaping exception) validate_token ends at
validate_return(token, registry, clock) ==
    IF Len(token) < 2 THEN "no_separator"
    ELSE LET token_part == SubSeq(token, 1, Len(token) - 1)
             signature == token[Len(token)]
             expected_signature == Sign(token_part)
         IN IF signature # expected_signature THEN "bad_signature"
            ELSE IF decode_error(token_part) \in CaughtErrors THEN "malformed"
            ELSE IF decode_error(token_part) # "none" THEN "raise"
            ELSE IF clock > fromisoformat(token_part[1].expires_at) THEN "expired"
            ELSE IF token \notin DOMAIN registry THEN "not_active"
            ELSE "ok"

\* validate_token's result: the username, None, or the exception that
\* leaves it uncaught
validate_token(token) ==
    CASE validate_return(token, active_tokens, now) = "ok" -> token[1].username
      [] validate_return(token, active_tokens, now) = "raise" -> TypeError
      [] OTHER -> None

\* get_current_user: the status the gate answers with (200 = request goes on)
gate_status(token) ==
    LET username == validate_token(token) IN
    IF username = TypeError THEN 500
    ELSE IF username = None THEN 401
    ELSE IF get_user(username) = NoUser THEN 401
    ELSE 200

get_current_user(token) ==
    IF gate_status(token) = 200 THEN get_user(validate_token(token)) ELSE NoUser

----------------------------------------------------------------------------
(* Requests the clients can send *)

Usernames == {"student", "teacher", "nobody"}

Passwords == {"password123", "secret456", "wrong"}

Held == DOMAIN issued

\* an expiry later than any the server writes
FarExpiry == isoformat(MaxTime + TTL + 1)

\* strings made from a held token t by changing its signature segment, or
\* its payload segment with the signature kept
Tampered(t) ==
    LET p == t[1]
        s == t[2]
    IN    {<<p, Signature(<<p>>, "guessed_key")>>}
       \cup {<<p, u[2]>> : u \in Held \ {t}}
       \cup {<<[p EXCEPT !.username = u], s>> : u \in Usernames \ {p.username}}
       \cup {<<[p EXCEPT !.expires_at = FarExpiry], s>>}
       \cup {<<Junk(k), s>> : k \in JunkKinds}

\* strings signed with the key that is written in the source
Forged(t) ==
    LET p == t[1]
        longer == [p EXCEPT !.expires_at = FarExpiry]
    IN {<<longer, Sign(<<longer>>)>>,
        <<p, Junk("not_base64"), Sign(<<p, Junk("not_base64")>>)>>,
        <<p>>}

SignedJunk == {<<Junk(k), Sign(<<Junk(k)>>)>> : k \in JunkKinds}

\* every string the claims are evaluated on
Presented ==
    Held \cup UNION {Tampered(t) \cup Forged(t) : t \in Held} \cup SignedJunk

\* the strings requests carry: the held tokens; each held token without its
\* signature, with a guessed signature, and with its expiry pushed out and
\* its signature kept; and two signed payloads that are no token_data (one
\* the except clause catches, one it does not)
Sent ==
    Held
    \cup {<<t[1]>> : t \in Held}
    \cup {<<t[1], Signature(<<t[1]>>, "guessed_key")>> : t \in Held}
    \cup {<<[t[1] EXCEPT !.expires_at = FarExpiry], t[2]>> : t \in Held}
    \cup {<<Junk(k), Sign(<<Junk(k)>>)>> : k \in {"not_json", "json_list"}}

\* A response: status, detail, headers, token and tokens are what the caller
\* receives; op and username record which request it answers and for whom.
Response(op, status, token, username) ==
    [op |-> op, status |-> status, token |-> token, username |-> username,
     detail |-> "", headers |-> "", tokens |-> << >>]

\* the response FastAPI makes of a raised HTTPException
HTTPException(op, status_code, detail, headers, username) ==
    [Response(op, status_code, NoToken, username)
        EXCEPT !.detail = detail, !.headers = headers]

\* the response to a request the get_current_user gate does not let through:
\* its HTTPException, or the server's answer to an exception nothing caught
gate_error(op, token) ==
    IF gate_status(token) = 401
    THEN HTTPException(op, 401, "Could not validate credentials",
                       "WWW-Authenticate: Bearer", None)
    ELSE HTTPException(op, 500, "Internal Server Error", "", None)

Idle == Response("none", 0, NoToken, None)

\* a request being handled: pc is where its handling stands, todo and
\* current_time are the locals expired_tokens and current_time of the purge
Task(op, pc, token, username) ==
    [op |-> op, pc |-> pc, token |-> token, username |-> username,
     todo |-> << >>, current_time |-> 0]

NoTask == Task("none", "none", NoToken, None)

----------------------------------------------------------------------------
(* Purge of /admin/tokens *)

\* the purge with >= for >
purge_expired_ge(registry, current_time) ==
    LET expired_tokens == {token \in DOMAIN registry :
                              current_time >= registry[token].expires_at}
    IN [token \in DOMAIN registry \ expired_tokens |-> registry[token]]

\* the purge stopping after its first deletion
purge_expired_one(registry, current_time) ==
    LET expired_tokens == {token \in DOMAIN registry :
                              current_time > registry[token].expires_at}
        first == IF expired_tokens = {} THEN {}
                 ELSE {CHOOSE token \in expired_tokens : TRUE}
    IN [token \in DOMAIN registry \ first |-> registry[token]]

purge_expired(registry, current_time) ==
    LET expired_tokens == {token \in DOMAIN registry :
                              current_time > registry[token].expires_at}
    IN [token \in DOMAIN registry \ expired_tokens |-> registry[token]]

----------------------------------------------------------------------------
(* The listing of /admin/tokens *)

\* len() of the strings a token is made of
StrLen(username) ==
    CASE username = "student" -> 7
      [] username = "teacher" -> 7
      [] OTHER -> 6

IsoLen == 26

HexLen == 32

SigLen == 16

PreviewLen == 20

\* the first character of a username
initial(username) ==
    CASE username = "student" -> "s"
      [] username = "teacher" -> "t"
      [] OTHER -> "n"

\* len(json.dumps(token_data)): the keys, quotes and separators are 66
\* characters, the rest are the four values
json_len(token_data) ==
    66 + StrLen(token_data.username) + IsoLen + IsoLen + HexLen

\* len(base64.b64encode(x)) for len(x) = n
b64_len(n) == 4 * ((n + 2) \div 3)

\* len(token) of a token create_simple_token made
token_len(token) == b64_len(json_len(token[1])) + 1 + SigLen

\* token[:20] + "...": 20 base64 characters are the first 15 characters of
\* the JSON text, {"username": " and the first character of the username
token_preview(token) ==
    [chars |-> IF token_len(token) < PreviewLen THEN token_len(token)
               ELSE PreviewLen,
     username_initial |-> initial(token[1].username),
     suffix |-> "..."]

\* the keys of the dict in the order of active_tokens.items(), which is the
\* order of insertion
RECURSIVE items(_)
items(keys) ==
    IF keys = {} THEN << >>
    ELSE LET first == CHOOSE k \in keys : \A j \in keys : k[1].random <= j[1].random
         IN <<first>> \o items(keys \ {first})

token_listing(registry) ==
    LET keys == items(DOMAIN registry)
    IN [i \in 1..Len(keys) |->
           [username |-> registry[keys[i]].username,
            expires_at |-> isoformat(registry[keys[i]].expires_at),
            token_preview |-> token_preview(keys[i])]]

----------------------------------------------------------------------------
(* Initial state and actions *)

\* ---- the client object and the GUI window after construction ----

\* ApiClient.__init__: no token, the session without an Authorization header
\* no Authorization header in the session
NoHeader == << >>

\* token_expires_at is None
NoExpiry == -1

ApiClient ==
    [token |-> NoToken, token_type |-> "bearer", token_expires_at |-> NoExpiry,
     username |-> None, Authorization |-> NoHeader]

\* no ApiClient method has been called yet
NoCall ==
    [method |-> "none", pc |-> "returned", username |-> None, password |-> None,
     header |-> NoHeader, status |-> 0, result |-> "None"]

\* ApiWorker.data before the first set_operation: None, on which every
\* subscript raises
NoData == [k \in {"None"} |-> None]

\* the QThread of ApiWorker: pc is where the thread is (never started, inside
\* run, or finished), method is the bound method run has called, emitted the
\* signals this run has emitted; started_with remembers operation_method and
\* data as QThread.start() found them
QThread ==
    [pc |-> "unstarted", method |-> None, emitted |-> << >>,
     started_with |-> [operation_method |-> None, data |-> NoData]]

\* before the first call of set_operation
NoWorkerCall == [operation |-> None, kw |-> NoData, raised |-> None]

Init ==
    /\ now = 0
    /\ active_tokens = EmptyMap
    /\ random_count = 0
    /\ issued = EmptyMap
    /\ revoked = {}
    /\ fake_posts_db = <<[id |-> 1, author |-> "teacher"],
                         [id |-> 2, author |-> "teacher"]>>
    /\ resp = Idle
    /\ tasks = EmptyBag
    /\ running = NoTask
    /\ client = ApiClient
    /\ call = NoCall
    /\ buttons_enabled = TRUE
    /\ progress_visible = FALSE
    /\ status_label = "Ready"
    /\ message_box = None
    /\ operation_method = None
    /\ data = NoData
    /\ thread = QThread
    /\ events = << >>
    /\ worker_call = NoWorkerCall

Tick ==
    /\ resp = Idle
    /\ UNCHANGED <<tasks, running, client_vars, gui_vars>>
    /\ now < MaxTime
    /\ now' = now + 1
    /\ UNCHANGED <<active_tokens, random_count, issued, revoked, fake_posts_db, resp>>

\* the response leaves the server
Respond ==
    /\ resp # Idle
    /\ UNCHANGED <<tasks, running, client_vars, gui_vars>>
    /\ resp' = Idle
    /\ UNCHANGED <<now, active_tokens, random_count, issued, revoked, fake_posts_db>>

\* /login dropping the entries the user already had
Login_single_session(username, password) ==
    LET user == authenticate_user(username, password) IN
    /\ resp = Idle
    /\ UNCHANGED <<tasks, running, client_vars, gui_vars>>
    /\ UNCHANGED fake_posts_db
    /\ IF user = NoUser
       THEN /\ resp' = HTTPException("login", 401, "Incorrect username or password",
                                     "WWW-Authenticate: Bearer", username)
            /\ UNCHANGED <<now, active_tokens, random_count, issued, revoked>>
       ELSE \E skew \in Skews :
            LET created == create_simple_token(user.username, now, now + skew,
                                               random_count)
                access_token == created.final_token
                others == {k \in DOMAIN active_tokens :
                              active_tokens[k].username # user.username}
            IN /\ random_count < MaxLogins
               /\ now + skew <= MaxTime
               /\ now' = now + skew
               /\ random_count' = random_count + 1
               /\ active_tokens' =
                    (access_token :> [username |-> user.username,
                                      expires_at |-> created.expires_at])
                    @@ [k \in others |-> active_tokens[k]]
               /\ issued' = (access_token :> now') @@ issued
               /\ resp' = Response("login", 200, access_token, username)
               /\ UNCHANGED revoked

\* /login telling an unknown username from a wrong password
Login_user_not_found(username, password) ==
    LET user == authenticate_user(username, password) IN
    /\ resp = Idle
    /\ UNCHANGED <<tasks, running, client_vars, gui_vars>>
    /\ UNCHANGED fake_posts_db
    /\ IF user = NoUser
       THEN /\ resp' = IF get_user(username) = NoUser
                       THEN HTTPException("login", 404, "User not found", "", username)
                       ELSE HTTPException("login", 401, "Incorrect username or password",
                                          "WWW-Authenticate: Bearer", username)
            /\ UNCHANGED <<now, active_tokens, random_count, issued, revoked>>
       ELSE \E skew \in Skews :
            LET created == create_simple_token(user.username, now, now + skew,
                                               random_count)
                access_token == created.final_token
            IN /\ random_count < MaxLogins
               /\ now + skew <= MaxTime
               /\ now' = now + skew
               /\ random_count' = random_count + 1
               /\ active_tokens' =
                    (access_token :> [username |-> user.username,
                                      expires_at |-> created.expires_at])
                    @@ active_tokens
               /\ issued' = (access_token :> now') @@ issued
               /\ resp' = Response("login", 200, access_token, username)
               /\ UNCHANGED revoked

\* /login storing an expiry it computes itself from the clock
Login_own_expiry(username, password) ==
    LET user == authenticate_user(username, password) IN
    /\ resp = Idle
    /\ UNCHANGED <<tasks, running, client_vars, gui_vars>>
    /\ UNCHANGED fake_posts_db
    /\ IF user = NoUser
       THEN /\ resp' = HTTPException("login", 401, "Incorrect username or password",
                                     "WWW-Authenticate: Bearer", username)
            /\ UNCHANGED <<now, active_tokens, random_count, issued, revoked>>
       ELSE \E skew \in Skews :
            LET created == create_simple_token(user.username, now, now + skew,
                                               random_count)
                access_token == created.final_token
            IN /\ random_count < MaxLogins
               /\ now + skew <= MaxTime
               /\ now' = now + skew
               /\ random_count' = random_count + 1
               /\ active_tokens' =
                    (access_token :> [username |-> user.username,
                                      expires_at |-> now + TTL])
                    @@ active_tokens
               /\ issued' = (access_token :> now') @@ issued
               /\ resp' = Response("login", 200, access_token, username)
               /\ UNCHANGED revoked

\* POST /login; the clock advances by skew between the two datetime.now()
\* calls of create_simple_token
Login(username, password) ==
    LET user == authenticate_user(username, password) IN
    /\ resp = Idle
    /\ UNCHANGED <<tasks, running, client_vars, gui_vars>>
    /\ UNCHANGED fake_posts_db
    /\ IF user = NoUser
       THEN /\ resp' = HTTPException("login", 401, "Incorrect username or password",
                                     "WWW-Authenticate: Bearer", username)
            /\ UNCHANGED <<now, active_tokens, random_count, issued, revoked>>
       ELSE \E skew \in Skews :
            LET created == create_simple_token(user.username, now, now + skew,
                                               random_count)
                access_token == created.final_token
            IN /\ random_count < MaxLogins
               /\ now + skew <= MaxTime
               /\ now' = now + skew
               /\ random_count' = random_count + 1
               /\ active_tokens' =
                    (access_token :> [username |-> user.username,
                                      expires_at |-> created.expires_at])
                    @@ active_tokens
               /\ issued' = (access_token :> now') @@ issued
               /\ resp' = Response("login", 200, access_token, username)
               /\ UNCHANGED revoked

\* /logout deleting every token of the caller
Logout_by_user(token) ==
    LET status == gate_status(token)
        current_user == get_current_user(token)
    IN /\ resp = Idle
       /\ UNCHANGED <<tasks, running, client_vars, gui_vars>>
       /\ IF status = 200
          THEN /\ active_tokens' =
                    [k \in {k \in DOMAIN active_tokens :
                               active_tokens[k].username # current_user.username}
                       |-> active_tokens[k]]
               /\ revoked' = revoked \cup {token}
               /\ resp' = Response("logout", 200, token, current_user.username)
          ELSE /\ resp' = gate_error("logout", token)
               /\ UNCHANGED <<active_tokens, revoked>>
       /\ UNCHANGED <<now, random_count, issued, fake_posts_db>>

\* /logout answering without deleting the entry
Logout_keep(token) ==
    LET status == gate_status(token)
        current_user == get_current_user(token)
    IN /\ resp = Idle
       /\ UNCHANGED <<tasks, running, client_vars, gui_vars>>
       /\ IF status = 200
          THEN /\ revoked' = revoked \cup {token}
               /\ resp' = Response("logout", 200, token, current_user.username)
               /\ UNCHANGED active_tokens
          ELSE /\ resp' = gate_error("logout", token)
               /\ UNCHANGED <<active_tokens, revoked>>
       /\ UNCHANGED <<now, random_count, issued, fake_posts_db>>

\* POST /logout
Logout(token) ==
    LET status == gate_status(token)
        current_user == get_current_user(token)
    IN /\ resp = Idle
       /\ UNCHANGED <<tasks, running, client_vars, gui_vars>>
       /\ IF status = 200
          THEN /\ active_tokens' =
                    [k \in DOMAIN active_tokens \ {token} |-> active_tokens[k]]
               /\ revoked' = revoked \cup {token}
               /\ resp' = Response("logout", 200, token, current_user.username)
          ELSE /\ resp' = gate_error("logout", token)
               /\ UNCHANGED <<active_tokens, revoked>>
       /\ UNCHANGED <<now, random_count, issued, fake_posts_db>>

\* GET /protected, /users/me, /posts, /posts/{post_id}: the gate and reads
Protected(token) ==
    LET status == gate_status(token)
        current_user == get_current_user(token)
    IN /\ resp = Idle
       /\ UNCHANGED <<tasks, running, client_vars, gui_vars>>
       /\ resp' = IF status = 200
                  THEN Response("protected", 200, NoToken, current_user.username)
                  ELSE gate_error("protected", token)
       /\ UNCHANGED <<now, active_tokens, random_count, issued, revoked, fake_posts_db>>

\* POST /posts (title and content are copied from the request and
\* created_at from the clock; none of them is read again)
CreatePost(token) ==
    LET status == gate_status(token)
        current_user == get_current_user(token)
    IN /\ resp = Idle
       /\ UNCHANGED <<tasks, running, client_vars, gui_vars>>
       /\ IF status = 200
          THEN /\ fake_posts_db' =
                    Append(fake_posts_db, [id |-> Len(fake_posts_db) + 1,
                                           author |-> current_user.username])
               /\ resp' = Response("create_post", 200, NoToken, current_user.username)
          ELSE /\ resp' = gate_error("create_post", token)
               /\ UNCHANGED fake_posts_db
       /\ UNCHANGED <<now, active_tokens, random_count, issued, revoked>>

\* /admin/tokens purging before it looks at the caller's username
AdminTokens_purge_first(token) ==
    LET status == gate_status(token)
        current_user == get_current_user(token)
    IN /\ resp = Idle
       /\ UNCHANGED <<tasks, running, client_vars, gui_vars>>
       /\ UNCHANGED fake_posts_db
       /\ IF status # 200
          THEN /\ resp' = gate_error("admin", token)
               /\ UNCHANGED <<now, active_tokens, random_count, issued, revoked>>
          ELSE \E skew \in Skews :
               /\ now + skew <= MaxTime
               /\ now' = now + skew
               /\ active_tokens' = purge_expired(active_tokens, now')
               /\ resp' = IF current_user.username # "teacher"
                          THEN HTTPException("admin", 403,
                                             "Only teachers can access this endpoint",
                                             "", current_user.username)
                          ELSE [Response("admin", 200, token, "teacher")
                                   EXCEPT !.tokens = token_listing(active_tokens')]
               /\ UNCHANGED <<random_count, issued, revoked>>

\* /admin/tokens building its listing before the purge
AdminTokens_list_first(token) ==
    LET status == gate_status(token)
        current_user == get_current_user(token)
    IN /\ resp = Idle
       /\ UNCHANGED <<tasks, running, client_vars, gui_vars>>
       /\ UNCHANGED fake_posts_db
       /\ IF status # 200
          THEN /\ resp' = gate_error("admin", token)
               /\ UNCHANGED <<now, active_tokens, random_count, issued, revoked>>
          ELSE IF current_user.username # "teacher"
          THEN /\ resp' = HTTPException("admin", 403,
                                        "Only teachers can access this endpoint",
                                        "", current_user.username)
               /\ UNCHANGED <<now, active_tokens, random_count, issued, revoked>>
          ELSE \E skew \in Skews :
               /\ now + skew <= MaxTime
               /\ now' = now + skew
               /\ active_tokens' = purge_expired(active_tokens, now')
               /\ resp' = [Response("admin", 200, token, "teacher")
                              EXCEPT !.tokens = token_listing(active_tokens)]
               /\ UNCHANGED <<random_count, issued, revoked>>

\* GET /admin/tokens; the clock advances by skew between the gate and the
\* datetime.now() of the purge
AdminTokens(token) ==
    LET status == gate_status(token)
        current_user == get_current_user(token)
    IN /\ resp = Idle
       /\ UNCHANGED <<tasks, running, client_vars, gui_vars>>
       /\ UNCHANGED fake_posts_db
       /\ IF status # 200
          THEN /\ resp' = gate_error("admin", token)
               /\ UNCHANGED <<now, active_tokens, random_count, issued, revoked>>
          ELSE IF current_user.username # "teacher"
          THEN /\ resp' = HTTPException("admin", 403,
                                        "Only teachers can access this endpoint",
                                        "", current_user.username)
               /\ UNCHANGED <<now, active_tokens, random_count, issued, revoked>>
          ELSE \E skew \in Skews :
               /\ now + skew <= MaxTime
               /\ now' = now + skew
               /\ active_tokens' = purge_expired(active_tokens, now')
               /\ resp' = [Response("admin", 200, token, "teacher")
                              EXCEPT !.tokens = token_listing(active_tokens')]
               /\ UNCHANGED <<random_count, issued, revoked>>

\* GET /health and GET /: no gate, nothing written
Health ==
    /\ resp = Idle
    /\ UNCHANGED <<tasks, running, client_vars, gui_vars>>
    /\ resp' = Response("health", 200, NoToken, None)
    /\ UNCHANGED <<now, active_tokens, random_count, issued, revoked, fake_posts_db>>

\* the endpoints that read or write the registry, and the clock between
\* requests
Next ==
    \/ Tick
    \/ Respond
    \/ \E username \in Usernames, password \in Passwords :
          Login(username, password)
    \/ \E token \in Sent : Logout(token)
    \/ \E token \in Sent : Protected(token)
    \/ \E token \in Sent : AdminTokens(token)

Spec == Init /\ [][Next]_vars

\* every endpoint, with requests that follow one another: the clock advances
\* while a handler runs and not between two requests
ApiNext ==
    \/ Respond
    \/ Health
    \/ \E username \in Usernames, password \in Passwords :
          Login(username, password)
    \/ \E token \in Sent : Logout(token)
    \/ \E token \in Sent : Protected(token)
    \/ \E token \in Sent : Len(fake_posts_db) < MaxPosts /\ CreatePost(token)
    \/ \E token \in Sent : AdminTokens(token)

ApiSpec == Init /\ [][ApiNext]_vars

----------------------------------------------------------------------------
(* Concurrent handling of requests                                         *)
(*                                                                         *)
(* The server is one process with one event loop.  The endpoint functions  *)
(* are coroutines (async def) without an await: once the loop resumes one  *)
(* it runs to its return.  get_current_user is a plain function, which is  *)
(* called in a worker thread and so runs beside whatever the loop runs.    *)
(* The steps below are the statements that read or write active_tokens.    *)

\* the requests behind the gate that can arrive: logouts and listings
\* bearing a held token
Requests ==
    {Task(op, "gate", t, None) : op \in {"logout", "admin"}, t \in Held}

in_flight == BagCardinality(tasks) + (IF running = NoTask THEN 0 ELSE 1)

Coroutines == BagToSet(tasks) \cup ({running} \ {NoTask})

\* the loop resumes r: the loop is free and r waits, or r already has it
resumes(r) == IF running = NoTask THEN BagIn(r, tasks) ELSE r = running

\* the requests that wait while r has the loop
waiting_without(r) ==
    IF running = NoTask THEN tasks (-) SetToBag({r}) ELSE tasks

\* a request arrives and get_current_user, in its worker thread, lets it
\* through: the endpoint coroutine is ready for the loop (a request the gate
\* rejects is answered by the gate and reaches no coroutine)
GateThread(r) ==
    /\ in_flight < MaxTasks
    /\ gate_status(r.token) = 200
    /\ tasks' = tasks (+) SetToBag({[r EXCEPT
                          !.pc = "ready",
                          !.username = get_current_user(r.token).username]})
    /\ UNCHANGED <<now, active_tokens, random_count, issued, revoked,
                   fake_posts_db, resp, running, client_vars, gui_vars>>

\* a login with the password of username arrives and the loop runs the body
\* of login, from authenticate_user to its return (the clock's advance
\* between the two reads of create_simple_token is in Login; here both read
\* one value and the clock advances between the steps)
LoginBody(username) ==
    LET created == create_simple_token(username, now, now, random_count)
        access_token == created.final_token
    IN /\ in_flight < MaxTasks
       /\ running = NoTask
       /\ authenticate_user(username, "password123") # NoUser
             \/ authenticate_user(username, "secret456") # NoUser
       /\ random_count < MaxLogins
       /\ random_count' = random_count + 1
       /\ active_tokens' =
            (access_token :> [username |-> username,
                              expires_at |-> created.expires_at])
            @@ active_tokens
       /\ issued' = (access_token :> now) @@ issued
       /\ UNCHANGED <<now, revoked, fake_posts_db, resp, tasks, running, client_vars, gui_vars>>

\* logout: if token in active_tokens
LogoutTest(r) ==
    /\ r.op = "logout"
    /\ r.pc = "ready"
    /\ resumes(r)
    /\ tasks' = waiting_without(r)
    /\ running' = IF r.token \in DOMAIN active_tokens
                  THEN [r EXCEPT !.pc = "del"]
                  ELSE NoTask
    /\ UNCHANGED <<now, active_tokens, random_count, issued, revoked,
                   fake_posts_db, resp, client_vars, gui_vars>>

\* logout: del active_tokens[token], and the return
LogoutDelete(r) ==
    /\ r.op = "logout"
    /\ r.pc = "del"
    /\ resumes(r)
    /\ tasks' = waiting_without(r)
    /\ IF r.token \in DOMAIN active_tokens
       THEN /\ active_tokens' =
                 [k \in DOMAIN active_tokens \ {r.token} |-> active_tokens[k]]
            /\ revoked' = revoked \cup {r.token}
            /\ running' = NoTask
       ELSE /\ running' = [r EXCEPT !.pc = "KeyError"]
            /\ UNCHANGED <<active_tokens, revoked>>
    /\ UNCHANGED <<now, random_count, issued, fake_posts_db, resp, client_vars, gui_vars>>

\* the scan of get_active_tokens followed by an await
AdminScan_await(r) ==
    /\ r.op = "admin"
    /\ r.pc = "ready"
    /\ resumes(r)
    /\ running' = NoTask
    /\ tasks' = IF r.username # "teacher"
                THEN waiting_without(r)
                ELSE waiting_without(r)
                     (+) SetToBag({[r EXCEPT
                            !.pc = "delete",
                            !.current_time = now,
                            !.todo = items({k \in DOMAIN active_tokens :
                                               now > active_tokens[k].expires_at})]})
    /\ UNCHANGED <<now, active_tokens, random_count, issued, revoked,
                   fake_posts_db, resp, client_vars, gui_vars>>

\* get_active_tokens: the username test, current_time and the list
\* expired_tokens
AdminScan(r) ==
    /\ r.op = "admin"
    /\ r.pc = "ready"
    /\ resumes(r)
    /\ tasks' = waiting_without(r)
    /\ running' = IF r.username # "teacher"
                  THEN NoTask
                  ELSE [r EXCEPT
                          !.pc = "delete",
                          !.current_time = now,
                          !.todo = items({k \in DOMAIN active_tokens :
                                             now > active_tokens[k].expires_at})]
    /\ UNCHANGED <<now, active_tokens, random_count, issued, revoked,
                   fake_posts_db, resp, client_vars, gui_vars>>

\* get_active_tokens: one turn of the loop del active_tokens[token]
PurgeDelete(r) ==
    /\ r.op = "admin"
    /\ r.pc = "delete"
    /\ r.todo # << >>
    /\ resumes(r)
    /\ tasks' = waiting_without(r)
    /\ IF Head(r.todo) \in DOMAIN active_tokens
       THEN /\ active_tokens' =
                 [k \in DOMAIN active_tokens \ {Head(r.todo)} |-> active_tokens[k]]
            /\ running' = [r EXCEPT !.todo = Tail(r.todo)]
       ELSE /\ running' = [r EXCEPT !.pc = "KeyError"]
            /\ UNCHANGED active_tokens
    /\ UNCHANGED <<now, random_count, issued, revoked, fake_posts_db, resp, client_vars, gui_vars>>

\* get_active_tokens: the listing and the return
AdminList(r) ==
    /\ r.op = "admin"
    /\ r.pc = "delete"
    /\ r.todo = << >>
    /\ resumes(r)
    /\ tasks' = waiting_without(r)
    /\ running' = NoTask
    /\ UNCHANGED <<now, active_tokens, random_count, issued, revoked,
                   fake_posts_db, resp, client_vars, gui_vars>>

ConcNext ==
    \/ Tick
    \/ \E r \in Requests : GateThread(r)
    \/ \E username \in Usernames : LoginBody(username)
    \/ \E r \in Coroutines : LogoutTest(r)
    \/ \E r \in Coroutines : LogoutDelete(r)
    \/ \E r \in Coroutines : AdminScan(r)
    \/ \E r \in Coroutines : PurgeDelete(r)
    \/ \E r \in Coroutines : AdminList(r)

ConcSpec == Init /\ [][ConcNext]_vars

\* ---- concurrent POST /posts ----

\* how many posts the concurrent requests create
MaxCreated == 2

\* the posts fake_posts_db starts with
SeedPosts == 2

PostRequests == {Task("create_post", "gate", t, None) : t \in Held}

CreatePostBody_any_user(r) ==
    /\ r.op = "create_post"
    /\ r.pc = "ready"
    /\ resumes(r)
    /\ tasks' = waiting_without(r)
    /\ running' = NoTask
    /\ \E q \in Coroutines :
          fake_posts_db' = Append(fake_posts_db, [id |-> Len(fake_posts_db) + 1,
                                                  author |-> q.username])
    /\ UNCHANGED <<now, active_tokens, random_count, issued, revoked, resp,
                   client_vars, gui_vars>>

\* create_post: the body has no await, so the loop runs it from
\* len(fake_posts_db) to its return; current_user is what the gate resolved
CreatePostBody(r) ==
    /\ r.op = "create_post"
    /\ r.pc = "ready"
    /\ resumes(r)
    /\ tasks' = waiting_without(r)
    /\ running' = NoTask
    /\ fake_posts_db' = Append(fake_posts_db, [id |-> Len(fake_posts_db) + 1,
                                                author |-> r.username])
    /\ UNCHANGED <<now, active_tokens, random_count, issued, revoked, resp,
                   client_vars, gui_vars>>

PostsNext ==
    \/ Tick
    \/ \E username \in Usernames : LoginBody(username)
    \/ \E r \in PostRequests : GateThread(r)
    \/ \E r \in Coroutines :
          Len(fake_posts_db) < SeedPosts + MaxCreated /\ CreatePostBody(r)

PostsSpec == Init /\ [][PostsNext]_vars

-----------------------------------------------------------------------------
(* The GUI application (pyqt_crud_app2.py): the main thread runs the       *)
(* button handlers and the slots of the worker's signals, one at a time;   *)
(* the worker thread runs ApiWorker.run.  A signal emitted in the worker   *)
(* thread is queued for the main thread (events) and its slot runs later.  *)
(* The texts of the four input widgets are what the user has typed when a  *)
(* handler reads them: an input of the handler.                            *)

\* what the user may have typed in an input: nothing, a blank, a number after
\* a blank, a number followed by a letter
Texts == {<< >>, <<" ">>, <<" ", "7">>, <<"7", "x">>}

Forms == [post_id : Texts, title : Texts, body : Texts, user_id : Texts]

ValueError == "ValueError"

\* str.strip(): without the leading and the trailing whitespace
RECURSIVE lstrip(_)
lstrip(s) == IF s # << >> /\ Head(s) = " " THEN lstrip(Tail(s)) ELSE s

RECURSIVE rstrip(_)
rstrip(s) ==
    IF s # << >> /\ s[Len(s)] = " " THEN rstrip(SubSeq(s, 1, Len(s) - 1)) ELSE s

strip(s) == rstrip(lstrip(s))

\* int(str): the digits between optional whitespace, ValueError otherwise
int(s) ==
    IF strip(s) # << >> /\ \A i \in 1..Len(strip(s)) : strip(s)[i] = "7"
    THEN strip(s)
    ELSE ValueError

\* validate_inputs: the messages it collects, in the order of the code
errors(form, required_fields) ==
       (IF "post_id" \in required_fields /\ strip(form.post_id) = << >>
        THEN <<"Post ID is required">> ELSE << >>)
    \o (IF "title" \in required_fields /\ strip(form.title) = << >>
        THEN <<"Title is required">> ELSE << >>)
    \o (IF "body" \in required_fields /\ strip(form.body) = << >>
        THEN <<"Body is required">> ELSE << >>)
    \o (IF "user_id" \in required_fields /\ strip(form.user_id) = << >>
        THEN <<"User ID is required">> ELSE << >>)
    \o (IF "post_id" \in required_fields /\ int(form.post_id) = ValueError
        THEN <<"Post ID must be a number">> ELSE << >>)
    \o (IF "user_id" \in required_fields /\ int(form.user_id) = ValueError
        THEN <<"User ID must be a number">> ELSE << >>)

validate_inputs_required_only(form, required_fields) ==
    \A k \in required_fields : strip(form[k]) # << >>

validate_inputs(form, required_fields) == errors(form, required_fields) = << >>

OPERATION_METHODS ==
    [create |-> "_create_post", read |-> "_read_post", update |-> "_update_post",
     delete |-> "_delete_post", read_all |-> "_read_all_posts"]

\* the keyword arguments of a set_operation call
kwargs(form, keys) == [k \in keys |-> form[k]]

\* set_operation assigning data before it looks the operation up
set_operation_assigns_first(operation, kw) ==
    IF operation \notin DOMAIN OPERATION_METHODS
    THEN [raised |-> ValueError, operation_method |-> operation_method, data |-> kw]
    ELSE [raised |-> None, operation_method |-> OPERATION_METHODS[operation],
          data |-> kw]

\* set_operation: what the call raises and the worker's two fields after it;
\* the raise comes before both assignments
set_operation(operation, kw) ==
    IF operation \notin DOMAIN OPERATION_METHODS
    THEN [raised |-> ValueError, operation_method |-> operation_method, data |-> data]
    ELSE [raised |-> None, operation_method |-> OPERATION_METHODS[operation],
          data |-> kw]

\* a signal queued for the main thread
Signal(signal, success, message) ==
    [signal |-> signal, success |-> success, message |-> message]

\* QThread.start(): starts run() in a new thread; does nothing while the
\* thread is still running
QThread_start(t, method, kw) ==
    IF t.pc \in {"unstarted", "finished"}
    THEN [pc |-> "run", method |-> None, emitted |-> << >>,
          started_with |-> [operation_method |-> method, data |-> kw]]
    ELSE t

\* set_operation(operation, **kw) followed by start_operation()
start_operation(operation, kw) ==
    /\ operation_method' = set_operation(operation, kw).operation_method
    /\ data' = set_operation(operation, kw).data
    /\ worker_call' = [operation |-> operation, kw |-> kw,
                       raised |-> set_operation(operation, kw).raised]
    /\ buttons_enabled' = FALSE
    /\ progress_visible' = TRUE
    /\ thread' = QThread_start(thread, operation_method', data')

\* a handler that shows the validation warning and returns
validation_error ==
    /\ message_box' = "Validation Error"
    /\ UNCHANGED <<buttons_enabled, progress_visible, operation_method, data, thread,
                   worker_call>>

\* ---- the slots of the buttons; a disabled button emits no clicked ----

create_post(form) ==
    /\ buttons_enabled
    /\ IF ~validate_inputs(form, {"title", "body", "user_id"})
       THEN validation_error
       ELSE /\ start_operation("create", kwargs(form, {"title", "body", "user_id"}))
            /\ UNCHANGED message_box
    /\ UNCHANGED <<status_label, events, server_vars, client_vars>>

read_post(form) ==
    /\ buttons_enabled
    /\ IF ~validate_inputs(form, {"post_id"})
       THEN validation_error
       ELSE /\ start_operation("read", kwargs(form, {"post_id"}))
            /\ UNCHANGED message_box
    /\ UNCHANGED <<status_label, events, server_vars, client_vars>>

update_post(form) ==
    /\ buttons_enabled
    /\ IF ~validate_inputs(form, {"post_id", "title", "body", "user_id"})
       THEN validation_error
       ELSE /\ start_operation("update",
                               kwargs(form, {"post_id", "title", "body", "user_id"}))
            /\ UNCHANGED message_box
    /\ UNCHANGED <<status_label, events, server_vars, client_vars>>

\* reply is the button the user presses in the confirmation dialog
delete_post(form, reply) ==
    /\ buttons_enabled
    /\ IF ~validate_inputs(form, {"post_id"})
       THEN validation_error
       ELSE /\ message_box' = "Confirm Deletion"
            /\ IF reply = "Yes"
               THEN start_operation("delete", kwargs(form, {"post_id"}))
               ELSE UNCHANGED <<buttons_enabled, progress_visible,
                                operation_method, data, thread, worker_call>>
    /\ UNCHANGED <<status_label, events, server_vars, client_vars>>

read_all_posts ==
    /\ buttons_enabled
    /\ start_operation("read_all", EmptyMap)
    /\ UNCHANGED <<message_box, status_label, events, server_vars, client_vars>>

\* the Clear button is never disabled; the inputs it clears are not state
clear_form ==
    /\ status_label' = "Ready"
    /\ UNCHANGED <<buttons_enabled, progress_visible, message_box, operation_method,
                   data, thread, events, worker_call,
                   server_vars, client_vars>>

\* ---- the slots of the worker's signals, run by the main thread ----

on_operation_started ==
    /\ events # << >>
    /\ Head(events).signal = "operation_started"
    /\ status_label' = Head(events).message
    /\ events' = Tail(events)
    /\ UNCHANGED <<buttons_enabled, progress_visible, message_box, operation_method,
                   data, thread, worker_call,
                   server_vars, client_vars>>

on_operation_finished ==
    /\ events # << >>
    /\ Head(events).signal = "operation_finished"
    /\ buttons_enabled' = TRUE
    /\ progress_visible' = FALSE
    /\ status_label' = "Ready"
    /\ message_box' = IF Head(events).success THEN message_box ELSE "Operation Failed"
    /\ events' = Tail(events)
    /\ UNCHANGED <<operation_method, data, thread, worker_call,
                   server_vars, client_vars>>

\* ---- the worker thread ----

\* the thread's signals: emitted is what this run has emitted so far
emit(signal, success, message, pc) ==
    /\ events' = Append(events, Signal(signal, success, message))
    /\ thread' = [thread EXCEPT !.pc = pc, !.emitted = Append(@, signal)]

\* run, line 55: the call of self.operation_method resolves the attribute
run ==
    /\ thread.pc = "run"
    /\ thread' = [thread EXCEPT !.pc = "method", !.method = operation_method]
    /\ UNCHANGED <<buttons_enabled, progress_visible, status_label, message_box,
                   operation_method, data, events, worker_call,
                   server_vars, client_vars>>

\* the first lines of the operation: _read_post, _update_post and _delete_post
\* read data["post_id"], then all emit operation_started; calling None or a
\* missing key raises, and run's handler emits operation_finished
operation_started ==
    /\ thread.pc = "method"
    /\ IF \/ thread.method = None
          \/ /\ thread.method \in {"_read_post", "_update_post", "_delete_post"}
             /\ "post_id" \notin DOMAIN data
       THEN emit("operation_finished", FALSE, "Unexpected error", "emitted")
       ELSE emit("operation_started", TRUE, thread.method, "request")
    /\ UNCHANGED <<buttons_enabled, progress_visible, status_label, message_box,
                   operation_method, data, worker_call,
                   server_vars, client_vars>>

\* what the operation reads from data to build its request
post_data_keys(method) ==
    IF method = "_create_post" THEN {"title", "body", "user_id"}
    ELSE IF method = "_update_post" THEN {"post_id", "title", "body", "user_id"}
    ELSE {}

post_data_raises(method, kw) ==
    \/ post_data_keys(method) \ DOMAIN kw # {}
    \/ \E k \in post_data_keys(method) \cap {"post_id", "user_id"} : int(kw[k]) = ValueError

\* how the request ends: the success status with the body the operation
\* expects, 404, another status, a requests exception (connection, timeout,
\* undecodable body), or another exception (a body of another shape)
Outcomes == {"success", "not_found", "failure_status", "RequestException", "Exception"}

operation_finished_twice(outcome) ==
    /\ thread.pc = "request"
    /\ IF outcome = "Exception"
       THEN /\ events' = events \o <<Signal("operation_finished", TRUE, "success"),
                                     Signal("operation_finished", FALSE, "Unexpected error")>>
            /\ thread' = [thread EXCEPT !.pc = "emitted",
                             !.emitted = @ \o <<"operation_finished", "operation_finished">>]
       ELSE emit("operation_finished", outcome = "success", outcome, "emitted")
    /\ UNCHANGED <<buttons_enabled, progress_visible, status_label, message_box,
                   operation_method, data, worker_call,
                   server_vars, client_vars>>

\* the rest of the operation: the request and the one emit of its branch, or
\* the emit of the handler in run that catches what the operation raised
operation_finished(outcome) ==
    /\ thread.pc = "request"
    /\ IF post_data_raises(thread.method, data)
       THEN emit("operation_finished", FALSE, "Unexpected error", "emitted")
       ELSE IF outcome = "success"
       THEN emit("operation_finished", TRUE, "success", "emitted")
       ELSE IF outcome = "not_found" /\ thread.method = "_read_post"
       THEN emit("operation_finished", FALSE, "not found", "emitted")
       ELSE IF outcome \in {"not_found", "failure_status"}
       THEN emit("operation_finished", FALSE, "Failed", "emitted")
       ELSE IF outcome = "RequestException"
       THEN emit("operation_finished", FALSE, "Network error", "emitted")
       ELSE emit("operation_finished", FALSE, "Unexpected error", "emitted")
    /\ UNCHANGED <<buttons_enabled, progress_visible, status_label, message_box,
                   operation_method, data, worker_call,
                   server_vars, client_vars>>

\* run returns: the thread finishes
run_returns ==
    /\ thread.pc = "emitted"
    /\ thread' = [thread EXCEPT !.pc = "finished"]
    /\ UNCHANGED <<buttons_enabled, progress_visible, status_label, message_box,
                   operation_method, data, events, worker_call,
                   server_vars, client_vars>>

Worker ==
    \/ run
    \/ operation_started
    \/ \E outcome \in Outcomes : operation_finished(outcome)
    \/ run_returns

GuiNext ==
    \/ \E form \in Forms : create_post(form)
    \/ \E form \in Forms : read_post(form)
    \/ \E form \in Forms : update_post(form)
    \/ \E form \in Forms, reply \in {"Yes", "No"} : delete_post(form, reply)
    \/ read_all_posts
    \/ clear_form
    \/ on_operation_started
    \/ on_operation_finished
    \/ run
    \/ operation_started
    \/ \E outcome \in Outcomes : operation_finished(outcome)
    \/ run_returns

GuiSpec == Init /\ [][GuiNext]_vars

\* the operating system schedules the worker thread, every request ends (its
\* timeout is 10 seconds), and the event loop takes up every queued signal;
\* the user is under no obligation to click
GuiFairSpec ==
    /\ GuiSpec
    /\ WF_vars(Worker)
    /\ WF_vars(on_operation_started)
    /\ WF_vars(on_operation_finished)

\* ---- ApiWorker.set_operation called with any operation name ----

\* the five names of OPERATION_METHODS and two names outside it
Operations == DOMAIN OPERATION_METHODS \cup {"patch", ""}

\* keyword arguments of a call
WorkerKwargs == {kwargs(form, keys) : form \in Forms, keys \in {{}, {"post_id"}}}

\* worker.set_operation(operation, **kw), the ValueError left to the caller
ApiWorker_set_operation(operation, kw) ==
    /\ operation_method' = set_operation(operation, kw).operation_method
    /\ data' = set_operation(operation, kw).data
    /\ worker_call' = [operation |-> operation, kw |-> kw,
                       raised |-> set_operation(operation, kw).raised]
    /\ UNCHANGED <<buttons_enabled, progress_visible, status_label, message_box,
                   thread, events, server_vars, client_vars>>

WorkerNext ==
    \E operation \in Operations, kw \in WorkerKwargs :
        ApiWorker_set_operation(operation, kw)

WorkerSpec == Init /\ [][WorkerNext]_vars

-----------------------------------------------------------------------------
(* The client (token/auth_client_example.py): one ApiClient object whose    *)
(* methods run one at a time.  A method that sends a request waits (pc      *)
(* "sent") until the response of the server is received or requests raises; *)
(* the server handles the request with the handlers above.                  *)

\* the value of the Authorization header: f"{token_type} {token}", the
\* sequence of its space-separated parts
authorization(token_type, token) == <<token_type, token>>

\* HTTPBearer: the credentials of the header
credentials(header) == header[2]

\* the body of the 200 response of /login
token_data(r) ==
    [access_token |-> r.token, token_type |-> "bearer",
     expires_in |-> ACCESS_TOKEN_EXPIRE_MINUTES * 60]

\* timedelta(seconds=...), in ticks of the clock (30 minutes)
timedelta(seconds) == seconds \div (30 * 60)

is_authenticated(c, clock) ==
    IF c.token = NoToken THEN FALSE
    ELSE IF c.token_expires_at # NoExpiry /\ clock >= c.token_expires_at THEN FALSE
    ELSE TRUE

logged_in_expired(body, username, clock) ==
    [token |-> body.access_token, token_type |-> body.token_type,
     token_expires_at |-> clock, username |-> username,
     Authorization |-> authorization(body.token_type, body.access_token)]

\* the fields after the 200 branch of login, lines 83-97; clock is the
\* datetime.now() of line 92
logged_in(body, username, clock) ==
    [token |-> body.access_token, token_type |-> body.token_type,
     token_expires_at |-> clock + timedelta(body.expires_in), username |-> username,
     Authorization |-> authorization(body.token_type, body.access_token)]

logout_keep_header(c) == [ApiClient EXCEPT !.Authorization = c.Authorization]

\* the fields after logout: those of a new ApiClient
logout(c) == ApiClient

\* a call of an ApiClient method: the request it has sent (the login data or
\* the Authorization header), the status it received (0: none) and what it
\* returned
Call(method, pc, username, password, header, status, result) ==
    [method |-> method, pc |-> pc, username |-> username, password |-> password,
     header |-> header, status |-> status, result |-> result]

\* the method returns: its request is gone, its caller has the result
return(c, status, result) ==
    Call(c.method, "returned", None, None, NoHeader, status, result)

\* the methods behind the gate, and the op of the endpoint each one requests
ProtectedMethods == {"get_protected_data", "get_user_info", "get_posts", "create_post"}

endpoint(method) ==
    IF method = "login" THEN "login"
    ELSE IF method = "create_post" THEN "create_post"
    ELSE "protected"

\* the response in resp answers the client's pending call
answered ==
    /\ call.pc = "sent"
    /\ resp # Idle
    /\ resp.op = endpoint(call.method)

\* login, up to session.post
ApiClient_login(username, password) ==
    /\ call.pc = "returned"
    /\ call' = Call("login", "sent", username, password, client.Authorization, 0, "None")
    /\ UNCHANGED <<client, server_vars, gui_vars>>

ApiClient_login_response_clears ==
    /\ answered
    /\ call.method = "login"
    /\ IF resp.status = 200
       THEN \E skew \in Skews :
            /\ now + skew <= MaxTime
            /\ now' = now + skew
            /\ client' = logged_in(token_data(resp), call.username, now')
            /\ call' = return(call, 200, "True")
       ELSE /\ client' = logout(client)
            /\ call' = return(call, resp.status, "False")
            /\ UNCHANGED now
    /\ resp' = Idle
    /\ UNCHANGED <<active_tokens, random_count, issued, revoked, fake_posts_db,
                   tasks, running, gui_vars>>

\* login, from the response on; the clock may have advanced since the server
\* read it
ApiClient_login_response ==
    /\ answered
    /\ call.method = "login"
    /\ IF resp.status = 200
       THEN \E skew \in Skews :
            /\ now + skew <= MaxTime
            /\ now' = now + skew
            /\ client' = logged_in(token_data(resp), call.username, now')
            /\ call' = return(call, 200, "True")
       ELSE /\ call' = return(call, resp.status, "False")
            /\ UNCHANGED <<client, now>>
    /\ resp' = Idle
    /\ UNCHANGED <<active_tokens, random_count, issued, revoked, fake_posts_db,
                   tasks, running, gui_vars>>

ApiClient_logout_revokes ==
    /\ call.pc = "returned"
    /\ client' = logout(client)
    /\ call' = Call("logout", "returned", None, None, NoHeader, 0, "None")
    /\ active_tokens' = [t \in DOMAIN active_tokens \ {client.token} |-> active_tokens[t]]
    /\ UNCHANGED <<now, random_count, issued, revoked, fake_posts_db, resp, tasks,
                   running, gui_vars>>

\* logout: local only

ApiClient_logout ==
    /\ call.pc = "returned"
    /\ client' = logout(client)
    /\ call' = Call("logout", "returned", None, None, NoHeader, 0, "None")
    /\ UNCHANGED <<server_vars, gui_vars>>

ApiClient_get_unchecked(method) ==
    /\ call.pc = "returned"
    /\ IF client.token = NoToken
       THEN call' = Call(method, "returned", None, None, NoHeader, 0, "None")
       ELSE call' = Call(method, "sent", None, None, client.Authorization, 0, "None")
    /\ UNCHANGED <<client, server_vars, gui_vars>>

\* get_protected_data, get_user_info, get_posts and create_post, up to the
\* request of the session
ApiClient_get(method) ==
    /\ call.pc = "returned"
    /\ IF ~is_authenticated(client, now)
       THEN call' = Call(method, "returned", None, None, NoHeader, 0, "None")
       ELSE call' = Call(method, "sent", None, None, client.Authorization, 0, "None")
    /\ UNCHANGED <<client, server_vars, gui_vars>>

ApiClient_get_response_keeps_token ==
    /\ answered
    /\ call.method \in ProtectedMethods
    /\ call' = return(call, resp.status, IF resp.status = 200 THEN "data" ELSE "None")
    /\ UNCHANGED client
    /\ resp' = Idle
    /\ UNCHANGED <<now, active_tokens, random_count, issued, revoked, fake_posts_db,
                   tasks, running, gui_vars>>

\* the four methods, from the response on
ApiClient_get_response ==
    /\ answered
    /\ call.method \in ProtectedMethods
    /\ call' = return(call, resp.status, IF resp.status = 200 THEN "data" ELSE "None")
    /\ client' = IF resp.status = 401 THEN logout(client) ELSE client
    /\ resp' = Idle
    /\ UNCHANGED <<now, active_tokens, random_count, issued, revoked, fake_posts_db,
                   tasks, running, gui_vars>>

\* requests raises (no connection, timeout): the method returns without a
\* response; a response the server had written is lost
RequestException ==
    /\ call.pc = "sent"
    /\ call' = return(call, 0, IF call.method = "login" THEN "False" ELSE "None")
    /\ resp' = IF answered THEN Idle ELSE resp
    /\ UNCHANGED <<client, now, active_tokens, random_count, issued, revoked,
                   fake_posts_db, tasks, running, gui_vars>>

\* who the client logs in as: the teacher, whose token also opens the
\* listing, or a user the server does not know, with the teacher's password
\* or a wrong one
ClientUsernames == {"teacher", "nobody"}

ClientPasswords == {"secret456", "wrong"}

\* the server takes up the request of the client
Serve ==
    /\ call.pc = "sent"
    /\ IF call.method = "login" THEN Login(call.username, call.password)
       ELSE IF call.method = "create_post"
       THEN Len(fake_posts_db) < MaxPosts /\ CreatePost(credentials(call.header))
       ELSE Protected(credentials(call.header))

ClientNext ==
    \/ Tick
    \/ \E username \in ClientUsernames, password \in ClientPasswords :
          ApiClient_login(username, password)
    \/ ApiClient_login_response
    \/ ApiClient_logout
    \/ \E method \in ProtectedMethods : ApiClient_get(method)
    \/ ApiClient_get_response
    \/ RequestException
    \/ Serve
    \* the teacher asks for the listing with another user agent
    \/ \E token \in Held : AdminTokens(token)
    \/ resp.op = "admin" /\ Respond

ClientSpec == Init /\ [][ClientNext]_vars

----------------------------------------------------------------------------
(* Properties of the token lifecycle *)

\* the three conditions of validity, each read off the token and the state
signature_verifies(token) ==
    /\ Len(token) >= 2
    /\ token[Len(token)] = Sign(SubSeq(token, 1, Len(token) - 1))

expiry_not_passed(token) ==
    /\ Len(token) = 2
    /\ token[1].kind = "json_dict"
    /\ token[1].expires_at.iso >= 0
    /\ ~(now > token[1].expires_at.iso)

expiry_passed(token) ==
    /\ Len(token) = 2
    /\ token[1].kind = "json_dict"
    /\ token[1].expires_at.iso >= 0
    /\ now > token[1].expires_at.iso

in_registry(token) == token \in DOMAIN active_tokens

\* issued tokens that left the registry through the purge
Purged == {t \in DOMAIN issued : t \notin DOMAIN active_tokens /\ t \notin revoked}

\* C1: a successful login immediately followed by validate_token on the
\* returned access_token returns the username that logged in.
C1_LoginThenValidate ==
    (resp.op = "login" /\ resp.status = 200)
        => validate_token(resp.token) = resp.username

C1_Witness ==
    /\ resp.op = "login"
    /\ resp.status = 200
    /\ resp.username = "student"
    /\ validate_token(resp.token) = "student"
    /\ now > fromisoformat(resp.token[1].created_at)

\* C2: validate_token(t) returns a username only if the signature verifies,
\* the encoded expiry has not passed and t is a key of active_tokens; if any
\* one of the three fails, the result is None.
C2_ThreeConditions ==
    \A t \in Presented :
        /\ validate_token(t) \in DOMAIN fake_users_db
              => (signature_verifies(t) /\ expiry_not_passed(t) /\ in_registry(t))
        /\ ~(signature_verifies(t) /\ expiry_not_passed(t) /\ in_registry(t))
              => validate_token(t) = None

\* C3: after a logout bearing an accepted token t has completed, every later
\* validate_token(t) and every later protected request bearing t is rejected.
C3_RevokedStaysRejected ==
    \A t \in revoked :
        /\ validate_token(t) = None
        /\ gate_status(t) = 401

C3_Witness ==
    \E t \in revoked :
        /\ signature_verifies(t)
        /\ expiry_not_passed(t)
        /\ validate_return(t, active_tokens, now) = "not_active"
        /\ resp.op = "protected"
        /\ resp.status = 401

\* C4: once validate_token(t) has rejected an issued token t as expired or as
\* absent from the registry, no step makes validate_token(t) accept it again.
C4_NeverResurrected ==
    [][\A t \in DOMAIN issued :
          validate_return(t, active_tokens, now) \in {"expired", "not_active"}
             => validate_return(t, active_tokens', now') # "ok"]_vars

C4_Witness ==
    \E t \in DOMAIN issued :
        /\ validate_return(t, active_tokens, now) \in {"expired", "not_active"}
        /\ resp.op = "login"
        /\ resp.status = 200
        /\ resp.token # t
        /\ resp.username = t[1].username
        /\ fromisoformat(resp.token[1].created_at) = fromisoformat(t[1].created_at)

\* C5: a logout bearing token t removes at most the entry keyed by t, leaves
\* every other entry as it was, and every other token that was valid stays
\* valid.
C5_LogoutPerToken ==
    [][resp'.op = "logout"
         => /\ DOMAIN active_tokens' \subseteq DOMAIN active_tokens
            /\ \A k \in DOMAIN active_tokens \ {resp'.token} :
                  /\ k \in DOMAIN active_tokens'
                  /\ active_tokens'[k] = active_tokens[k]
                  /\ validate_return(k, active_tokens, now) = "ok"
                        => validate_return(k, active_tokens', now') = "ok"]_vars

C5_Witness ==
    /\ resp.op = "logout"
    /\ resp.status = 200
    /\ resp.token \in revoked
    /\ \E k \in DOMAIN active_tokens :
          /\ k[1].username = resp.username
          /\ validate_token(k) = resp.username

\* C6: a token whose encoded expiry has passed is rejected also while its
\* entry is still in active_tokens; a token that /login returned at time T is
\* accepted at T and rejected at any time later than T + TTL.
C6_ExpiredRejected ==
    /\ \A t \in Presented :
          (signature_verifies(t) /\ expiry_passed(t))
             => /\ validate_token(t) = None
                /\ validate_return(t, (t :> [username |-> t[1].username,
                                             expires_at |-> t[1].expires_at.iso])
                                        @@ active_tokens, now) = "expired"
    /\ \A t \in DOMAIN issued :
          /\ (now = issued[t] /\ in_registry(t)) => validate_token(t) = t[1].username
          /\ now > issued[t] + TTL
                => validate_return(t, active_tokens, now) = "expired"

C6_Witness ==
    \E t \in DOMAIN active_tokens :
        /\ now > issued[t] + TTL
        /\ validate_return(t, active_tokens, now) = "expired"
        /\ resp.op = "protected"
        /\ resp.status = 401

\* C7: a logout request bearing any token string, also one that is not in
\* the registry, completes without an error outcome.
C7_LogoutAlwaysSucceeds ==
    resp.op = "logout" => resp.status = 200

\* C8: a string made from an issued token by changing its signature segment,
\* or its payload segment with the signature kept, is rejected at the
\* signature check, whatever the registry contains.
C8_TamperingCaughtBySignature ==
    \A t \in Held : \A x \in Tampered(t) :
        /\ validate_return(x, active_tokens, now) = "bad_signature"
        /\ validate_return(x, (x :> [username |-> x[1].username,
                                      expires_at |-> FarExpiry.iso])
                                @@ active_tokens, now) = "bad_signature"

C8_Witness ==
    \E t \in DOMAIN active_tokens :
        /\ t[1].username = "student"
        /\ validate_token(t) = "student"
        /\ <<[t[1] EXCEPT !.username = "teacher"], t[2]>> \in Tampered(t)
        /\ <<[t[1] EXCEPT !.expires_at = FarExpiry], t[2]>> \in Tampered(t) \cap Sent
        /\ <<Junk("json_list"), t[2]>> \in Tampered(t)
        /\ \E u \in DOMAIN active_tokens : <<t[1], u[2]>> \in Tampered(t)
        /\ resp.op = "admin"
        /\ resp.status = 401

\* C9: the purge of the admin listing removes exactly the entries whose
\* stored expiry has passed at the time of the purge and leaves the others
\* untouched.
C9_PurgeExact ==
    [][(resp'.op = "admin" /\ resp'.status = 200)
         => /\ DOMAIN active_tokens' =
                 {k \in DOMAIN active_tokens : ~(now' > active_tokens[k].expires_at)}
            /\ \A k \in DOMAIN active_tokens' :
                  active_tokens'[k] = active_tokens[k]]_vars

C9_Witness ==
    /\ resp.op = "admin"
    /\ resp.status = 200
    /\ Purged # {}
    /\ \E k \in DOMAIN active_tokens : now = active_tokens[k].expires_at

\* C10: the state a purge leaves is one a second purge at the same clock
\* value changes nothing in: the second run's effect on the registry is
\* purge_expired(active_tokens, now), and it equals active_tokens.
C10_PurgeIdempotent ==
    (resp.op = "admin" /\ resp.status = 200)
        => purge_expired(active_tokens, now) = active_tokens

C10_Witness ==
    /\ resp.op = "admin"
    /\ resp.status = 200
    /\ Purged # {}
    /\ gate_status(resp.token) = 200
    /\ get_current_user(resp.token).username = "teacher"

----------------------------------------------------------------------------
(* Properties of the registry *)

\* C11 (as stated): in every reachable state each key of active_tokens is
\* unexpired and accepted by validate_token.
C11_RegistryAllHonored ==
    \A t \in DOMAIN active_tokens :
        /\ ~(now > active_tokens[t].expires_at)
        /\ validate_token(t) = active_tokens[t].username

\* C11 (amended): each key of active_tokens is a token /login issued, with a
\* verifying signature, that no completed logout bore; validate_token accepts
\* it exactly while its expiry has not passed and rejects it with None from
\* then on, while the entry stays in the registry until a purge or a logout.
C11_RegistryHonoredUntilExpiry ==
    \A t \in DOMAIN active_tokens :
        /\ t \in DOMAIN issued
        /\ t \notin revoked
        /\ signature_verifies(t)
        /\ expiry_not_passed(t) => validate_token(t) = active_tokens[t].username
        /\ expiry_passed(t) => validate_token(t) = None
        /\ expiry_not_passed(t) \/ expiry_passed(t)

C11_Witness ==
    /\ \E t \in DOMAIN active_tokens :
          expiry_passed(t) /\ validate_token(t) = None
    /\ \E t \in DOMAIN active_tokens :
          expiry_not_passed(t) /\ validate_token(t) = "teacher"
    /\ resp.op = "protected"
    /\ resp.status = 401

\* C12: active_tokens is changed by three operations only: a successful
\* login inserts exactly one new entry, a successful logout removes the
\* entry of the presented token, the admin listing removes expired entries;
\* every other step (a failed login, a request the gate rejects, /protected,
\* /users/me, /posts, /health) leaves it as it was, and a key that a step
\* adds is none of the strings that were there to be presented and rejected
\* before the step (the held tokens and the strings made from them).
C12_RegistryFrame ==
    [][/\ (resp'.op = "login" /\ resp'.status = 200)
            => /\ resp'.token \notin DOMAIN active_tokens
               /\ DOMAIN active_tokens' = DOMAIN active_tokens \cup {resp'.token}
               /\ \A k \in DOMAIN active_tokens : active_tokens'[k] = active_tokens[k]
       /\ (resp'.op = "logout" /\ resp'.status = 200)
            => /\ DOMAIN active_tokens' = DOMAIN active_tokens \ {resp'.token}
               /\ \A k \in DOMAIN active_tokens' : active_tokens'[k] = active_tokens[k]
       /\ (resp'.op = "admin" /\ resp'.status = 200)
            => /\ DOMAIN active_tokens' \subseteq DOMAIN active_tokens
               /\ \A k \in DOMAIN active_tokens' : active_tokens'[k] = active_tokens[k]
               /\ \A k \in DOMAIN active_tokens \ DOMAIN active_tokens' :
                     now' > active_tokens[k].expires_at
       /\ ~(resp'.op \in {"login", "logout", "admin"} /\ resp'.status = 200)
            => active_tokens' = active_tokens
       /\ \A x \in DOMAIN active_tokens' \ DOMAIN active_tokens :
             x \notin Presented]_vars

C12_Witness ==
    /\ resp.op = "login"
    /\ resp.status = 200
    /\ \E k \in DOMAIN active_tokens :
          k # resp.token /\ active_tokens[k].username = resp.username
    /\ Len(fake_posts_db) = MaxPosts
    /\ \E x \in Sent : validate_return(x, active_tokens, now) = "bad_signature"

----------------------------------------------------------------------------
(* Properties of the responses *)

\* what the caller receives of a response
caller_visible(r) ==
    [status |-> r.status, detail |-> r.detail, headers |-> r.headers,
     token |-> r.token, tokens |-> r.tokens]

\* C13: a login with an unknown username and a login with a known username
\* and a wrong password are both refused, with the same status 401, detail
\* and headers, and neither changes active_tokens.
C13_LoginFailuresAlike ==
    [][/\ \A username \in Usernames, password \in Passwords :
             (\/ username \notin DOMAIN fake_users_db
              \/ ~verify_password(password, get_user(username).hashed_password))
                => authenticate_user(username, password) = NoUser
       /\ (resp'.op = "login" /\ resp'.username \notin DOMAIN fake_users_db)
            => resp'.status = 401
       /\ (resp'.op = "login" /\ resp'.status # 200)
            => /\ caller_visible(resp') =
                    [status |-> 401, detail |-> "Incorrect username or password",
                     headers |-> "WWW-Authenticate: Bearer", token |-> NoToken,
                     tokens |-> << >>]
               /\ active_tokens' = active_tokens]_vars

C13_Witness ==
    /\ resp.op = "login"
    /\ resp.status = 401
    /\ resp.username = "student"
    /\ caller_visible(resp) =
          caller_visible(HTTPException("login", 401, "Incorrect username or password",
                                       "WWW-Authenticate: Bearer", "nobody"))
    /\ \E k \in DOMAIN active_tokens : active_tokens[k].username = "student"

\* C14: for every string presented, validate_token returns a username or
\* None; no exception leaves it, so no request ends in a server error.
C14_ValidateTokenTotal ==
    /\ \A x \in Presented :
          validate_token(x) \in (DOMAIN fake_users_db) \cup {None}
    /\ resp.status # 500

\* the endpoints behind the get_current_user gate
GatedOps == {"logout", "protected", "create_post", "admin"}

\* C15: every request to a gated endpoint that the gate does not let through
\* is answered with the same 401 (same detail, same headers), and the step
\* appends no post and changes no registry entry.
C15_OneRejection ==
    [][(resp'.op \in GatedOps /\ resp'.status \notin {200, 403})
          => /\ caller_visible(resp') =
                  [status |-> 401, detail |-> "Could not validate credentials",
                   headers |-> "WWW-Authenticate: Bearer", token |-> NoToken,
                   tokens |-> << >>]
             /\ active_tokens' = active_tokens
             /\ fake_posts_db' = fake_posts_db]_vars

\* C16: /admin/tokens answers 200 only to a caller whose token is valid and
\* belongs to "teacher"; a caller with a valid token of another user gets
\* 403 with no token information, and that step changes neither the
\* registry nor anything else the listing would (no purge).
C16_AdminOnlyTeacher ==
    /\ [](resp = Idle
            => \A x \in Sent :
                  (gate_status(x) = 200 /\ get_current_user(x).username # "teacher")
                     => /\ ENABLED (AdminTokens(x) /\ resp'.status = 403)
                        /\ ~ENABLED (AdminTokens(x) /\ resp'.status # 403))
    /\ [][resp'.op = "admin"
          => /\ resp'.status = 200
                  => /\ validate_return(resp'.token, active_tokens, now) = "ok"
                     /\ resp'.token[1].username = "teacher"
             /\ resp'.status \in {200, 401, 403, 500}
             /\ resp'.status = 403
                  => /\ resp'.username \in (DOMAIN fake_users_db) \ {"teacher"}
                     /\ \E k \in DOMAIN active_tokens :
                           /\ active_tokens[k].username = resp'.username
                           /\ validate_return(k, active_tokens, now) = "ok"
                     /\ resp'.detail = "Only teachers can access this endpoint"
                     /\ resp'.tokens = << >>
                     /\ resp'.token = NoToken
                     /\ active_tokens' = active_tokens
                     /\ now' = now
             /\ resp'.status \in {401, 500}
                  => \E x \in Sent : gate_status(x) = resp'.status]_vars

C16_Witness ==
    /\ resp.op = "admin"
    /\ resp.status = 403
    /\ resp.username = "student"
    /\ \E k \in DOMAIN active_tokens : now > active_tokens[k].expires_at

\* C17: the listing of a 200 answer of /admin/tokens has one item for each
\* entry of the registry whose expiry has not passed at the purge's clock
\* value and no other item; the item of an entry carries its username, its
\* expiry and a preview of the first 20 characters of the token, which is
\* shorter than the token.
C17_ListingOfUnexpired ==
    [][(resp'.op = "admin" /\ resp'.status = 200)
          => LET live == {k \in DOMAIN active_tokens :
                             ~(now' > active_tokens[k].expires_at)}
                 item(k) == [username |-> active_tokens[k].username,
                             expires_at |-> isoformat(active_tokens[k].expires_at),
                             token_preview |-> token_preview(k)]
                 listed == resp'.tokens
             IN /\ Len(listed) = Cardinality(live)
                /\ \A i \in 1..Len(listed) : \E k \in live : listed[i] = item(k)
                /\ \A k \in live :
                      /\ Cardinality({i \in 1..Len(listed) : listed[i] = item(k)})
                           = Cardinality({j \in live : item(j) = item(k)})
                      /\ item(k).username = k[1].username
                      /\ item(k).token_preview.chars = PreviewLen
                      /\ item(k).token_preview.chars < token_len(k)
                      /\ item(k).token_preview.username_initial = initial(k[1].username)
                /\ \A i \in 1..Len(listed) :
                      DOMAIN listed[i] = {"username", "expires_at", "token_preview"}]_vars

C17_Witness ==
    /\ resp.op = "admin"
    /\ resp.status = 200
    /\ Len(resp.tokens) = 1
    /\ Purged # {}

----------------------------------------------------------------------------
(* Properties of the token data *)

\* C18: in the payload of every issued token, expires_at is created_at plus
\* the TTL, exactly.
C18_ExpiryIsCreatedPlusTTL ==
    \A t \in DOMAIN issued :
        fromisoformat(t[1].expires_at) = fromisoformat(t[1].created_at) + TTL

\* clock values at which expiry is judged
Instants == 0..(MaxTime + TTL + 1)

\* C19: the value stored under a key of active_tokens has the username and
\* the expiry that the key's payload encodes, so at every instant the purge
\* (reading the stored expiry) would remove the entry exactly when
\* validate_token (reading the encoded expiry) rejects the token as expired.
C19_EntryAgreesWithKey ==
    \A t \in DOMAIN active_tokens :
        /\ active_tokens[t].username = t[1].username
        /\ active_tokens[t].expires_at = fromisoformat(t[1].expires_at)
        /\ \A c \in Instants :
              (t \notin DOMAIN purge_expired(active_tokens, c))
                 <=> (validate_return(t, active_tokens, c) = "expired")

C19_Witness ==
    /\ \E t \in DOMAIN active_tokens :
          /\ fromisoformat(t[1].expires_at) > fromisoformat(t[1].created_at) + TTL
          /\ now = active_tokens[t].expires_at
          /\ validate_token(t) = t[1].username
    /\ \E t \in DOMAIN active_tokens :
          /\ now > active_tokens[t].expires_at
          /\ validate_return(t, active_tokens, now) = "expired"

----------------------------------------------------------------------------
(* Properties of concurrent handling *)

\* C20: with requests handled concurrently, at most one coroutine is inside
\* a handler body, so the reads and writes of active_tokens of one body are
\* not interleaved with those of another: no del raises KeyError, the purge
\* deletes exactly the entries that are expired at its current_time, none
\* more and none fewer, and an entry a login inserted stays until a logout
\* bearing it or a purge after its expiry removes it.
C20_MutuallyExclusive ==
    /\ \A r \in Coroutines : r.pc # "KeyError"
    /\ Cardinality({r \in Coroutines : r.pc \notin {"gate", "ready"}}) <= 1
    /\ \A r \in Coroutines :
          r.pc = "delete"
             => /\ \A i \in 1..Len(r.todo) :
                      /\ r.todo[i] \in DOMAIN active_tokens
                      /\ r.current_time > active_tokens[r.todo[i]].expires_at
                /\ \A k \in DOMAIN active_tokens :
                      r.current_time > active_tokens[k].expires_at
                         => \E i \in 1..Len(r.todo) : r.todo[i] = k
    /\ \A t \in DOMAIN issued :
          t \notin DOMAIN active_tokens
             => (t \in revoked \/ now > fromisoformat(t[1].expires_at))

C20_Witness ==
    /\ running.pc = "delete"
    /\ running.todo # << >>
    /\ \E r \in BagToSet(tasks) :
          /\ r.op = "logout"
          /\ r.pc = "ready"
          /\ r.token = Head(running.todo)

\* C21: a request that passed the gate with token t and waits for its
\* endpoint body has t in active_tokens when the body runs, and no completed
\* logout bore t: the body (a logout's too, which answers 200 whether or not
\* it finds the key) runs only for a token that is still active.
C21_GateAndBodyAtomic ==
    \A r \in Coroutines :
        r.pc = "ready"
           => /\ r.token \in DOMAIN active_tokens
              /\ r.token \notin revoked

-----------------------------------------------------------------------------
(* Properties of the GUI application *)

\* C22: at most one API operation is in flight: between start_operation and
\* the handling of operation_finished (the progress bar is visible) the
\* operation buttons are disabled, and while the worker thread is running
\* operation_method and data are what they were when the thread was started.
C22_OneOperationInFlight ==
    /\ progress_visible => ~buttons_enabled
    /\ thread.pc \in {"run", "method", "request", "emitted"}
          => /\ operation_method = thread.started_with.operation_method
             /\ data = thread.started_with.data

\* what a run has emitted by the time it is at pc
emitted_at(pc) ==
    IF pc \in {"unstarted", "run", "method"} THEN << >>
    ELSE IF pc = "request" THEN <<"operation_started">>
    ELSE <<"operation_started", "operation_finished">>

\* C23: every run of the worker emits operation_started first and then
\* exactly one operation_finished, whatever the outcome, with success false
\* unless the request succeeded; and every run gets there.
C23_StartedThenOneFinished ==
    /\ [](/\ thread.emitted = emitted_at(thread.pc)
          /\ \A i \in 1..Len(events) :
                events[i].signal = "operation_finished"
                   => (events[i].success <=> events[i].message = "success"))
    /\ (thread.pc = "run" ~> thread.pc = "finished")

\* C23 witness: a run that ended in a network exception has returned, and
\* its one operation_finished is waiting for the main thread.
C23_Witness ==
    /\ thread.pc = "finished"
    /\ events # << >>
    /\ events[Len(events)] = Signal("operation_finished", FALSE, "Network error")

\* C24: the GUI never stays busy: once start_operation has disabled the
\* buttons, on_operation_finished eventually enables them again and hides
\* the progress bar.
C24_NeverStuckBusy ==
    (~buttons_enabled) ~> (buttons_enabled /\ ~progress_visible)

\* input validation fails: a required field is empty after trimming, or a
\* required post_id or user_id is not an integer
invalid(form, required_fields) ==
    \/ \E k \in required_fields : strip(form[k]) = << >>
    \/ \E k \in required_fields \cap {"post_id", "user_id"} : int(form[k]) = ValueError

\* the fields the handler of each operation validates before it hands the
\* operation to the worker
required_fields(method) ==
    IF method = "_create_post" THEN {"title", "body", "user_id"}
    ELSE IF method = "_update_post" THEN {"post_id", "title", "body", "user_id"}
    ELSE IF method \in {"_read_post", "_delete_post"} THEN {"post_id"}
    ELSE {}

\* C25: a create, read, update or delete click whose input validation fails
\* starts nothing.  The handlers hand the texts they validated to the worker,
\* so: every step that changes the worker's operation_method or data, starts
\* the thread or disables the buttons is a step whose texts, now in data,
\* pass validation.
C25_InvalidInputStartsNothing ==
    [][(\/ operation_method' # operation_method
        \/ data' # data
        \/ thread'.started_with # thread.started_with
        \/ thread'.pc = "run" /\ thread.pc # "run"
        \/ buttons_enabled /\ ~buttons_enabled'
        \/ progress_visible' /\ ~progress_visible)
          => /\ required_fields(operation_method') \subseteq DOMAIN data'
             /\ ~invalid(data', required_fields(operation_method'))]_vars

\* C25 witness: the validation warning is on the screen, the buttons are
\* enabled and the worker has never been given an operation.
C25_Witness ==
    /\ message_box = "Validation Error"
    /\ buttons_enabled
    /\ operation_method = None
    /\ thread.pc = "unstarted"

-----------------------------------------------------------------------------
(* Properties of the client *)

\* C26: between two calls of its methods the client's session carries an
\* Authorization header exactly when token is not None, and the header is
\* then "<token_type> <token>".
C26_HeaderIffToken ==
    /\ client.Authorization # NoHeader <=> client.token # NoToken
    /\ client.token # NoToken
          => client.Authorization = authorization(client.token_type, client.token)

\* C26 witness: a protected call has returned data for a logged-in client.
C26_Witness ==
    /\ call.method = "get_protected_data"
    /\ call.result = "data"
    /\ client.token # NoToken

\* C27: the client sends a request to a protected endpoint only if
\* is_authenticated() holds; without a token or with a locally expired one the
\* four methods return None, send nothing and change neither the client nor
\* the server.
C27_NoRequestUnlessAuthenticated ==
    [][(call.pc = "returned" /\ call' # call /\ call'.method \in ProtectedMethods)
          => IF is_authenticated(client, now)
             THEN call'.pc = "sent"
             ELSE /\ call'.pc = "returned"
                  /\ call'.result = "None"
                  /\ UNCHANGED <<client, server_vars>>]_vars

\* C27 witness: get_posts has returned None for a client whose token has
\* expired locally, and the client still holds that token.
C27_Witness ==
    /\ call.method = "get_posts"
    /\ call.pc = "returned"
    /\ call.status = 0
    /\ call.result = "None"
    /\ client.token # NoToken
    /\ now >= client.token_expires_at

\* C28: a protected call that received 401 has returned None and left the
\* client logged out (no token, username, expiry or Authorization header), and
\* a client without a token has no request to a protected endpoint under way.
C28_UnauthenticatedAfter401 ==
    /\ (call.method \in ProtectedMethods /\ call.pc = "returned" /\ call.status = 401)
          => /\ client = logout(client)
             /\ client.token = NoToken /\ client.username = None
             /\ client.token_expires_at = NoExpiry /\ client.Authorization = NoHeader
             /\ call.result = "None"
    /\ (client.token = NoToken /\ call.method \in ProtectedMethods)
          => call.pc = "returned" /\ call.result = "None"

\* C28 witness: the server has answered 401 to a protected call of the client.
C28_Witness ==
    /\ call.method \in ProtectedMethods
    /\ call.pc = "returned"
    /\ call.status = 401

\* C29: ApiClient.logout clears the client's token, username, expiry and
\* Authorization header, sends no request and leaves the server as it was;
\* the token stays in the registry until the purge removes it after its
\* expiry.
C29_LogoutIsLocal ==
    /\ [][(call.pc = "returned" /\ call'.method = "logout"
            /\ (call' # call \/ client' # client))
             => /\ client' = ApiClient
                /\ call'.pc = "returned"
                /\ UNCHANGED server_vars]_vars
    /\ [](\A t \in DOMAIN issued : in_registry(t) \/ expiry_passed(t))

\* C29 witness: the client has logged out and the token it held is still in
\* the registry.
C29_Witness ==
    /\ call.method = "logout"
    /\ client.token = NoToken
    /\ DOMAIN issued # {}
    /\ \A t \in DOMAIN issued : in_registry(t)

\* C30: login returns True exactly when it received 200; a login that
\* returns False (401, another status, no response) leaves token, token_type,
\* username, expiry and the Authorization header as they were.
C30_FailedLoginKeepsSession ==
    [][(call.method = "login" /\ call.pc = "sent" /\ call'.pc = "returned")
          => /\ call'.result = "True" <=> (answered /\ resp.status = 200 /\ call'.status = 200)
             /\ call'.result \in {"True", "False"}
             /\ call'.result = "False" => client' = client]_vars

\* C30 witness: a login has failed with 401 and the client still has the
\* session of its earlier login.
C30_Witness ==
    /\ call.method = "login"
    /\ call.pc = "returned"
    /\ call.status = 401
    /\ call.result = "False"
    /\ client.token # NoToken
    /\ client.Authorization = authorization("bearer", client.token)

\* the client holds a token of the server, with the expiry the server wrote
server_expiry(token) == fromisoformat(token[1].expires_at)

\* C31 as stated: whenever is_authenticated() reports the client's token
\* expired, the server's validate_token rejects it too.
C31_ClientExpiredThenServerRejects ==
    (client.token # NoToken /\ ~is_authenticated(client, now))
        => validate_token(client.token) = None

\* C31: expires_in is the TTL in seconds, the client's token_expires_at is
\* never earlier than the expiry the server wrote, and once the clock is past
\* token_expires_at the server's validate_token rejects the token.  (At the
\* instant now = token_expires_at the client reports the token expired, and
\* the server, which rejects only after its expiry, may still accept it.)
C31_ClientExpiryNotEarlier ==
    /\ (resp.op = "login" /\ resp.status = 200)
          => token_data(resp).expires_in = ACCESS_TOKEN_EXPIRE_MINUTES * 60
    /\ client.token # NoToken
          => /\ client.token_expires_at >= server_expiry(client.token)
             /\ now > client.token_expires_at => validate_token(client.token) = None

\* C31 witness: the clock is past the client's expiry, the client reports
\* its token expired and the server rejects it.
C31_Witness ==
    /\ client.token # NoToken
    /\ now > client.token_expires_at
    /\ ~is_authenticated(client, now)
    /\ validate_token(client.token) = None

\* C32: after any sequence of authenticated POST /posts requests, concurrent
\* ones included, the post at position k has id k, so the ids are pairwise
\* distinct, and every post is appended by a request that then leaves the
\* server, with the username of the token that request bore as its author.
C32_PostIdsAndAuthors ==
    /\ [](/\ \A k \in 1..Len(fake_posts_db) : fake_posts_db[k].id = k
          /\ \A j, k \in 1..Len(fake_posts_db) :
                j # k => fake_posts_db[j].id # fake_posts_db[k].id)
    /\ [][fake_posts_db' # fake_posts_db
            => \E r \in Coroutines :
                 /\ r.op = "create_post"
                 /\ r.pc = "ready"
                 /\ r.token \in DOMAIN issued
                 /\ tasks' = tasks (-) SetToBag({r})
                 /\ fake_posts_db' =
                      Append(fake_posts_db, [id |-> Len(fake_posts_db) + 1,
                                             author |-> r.token[1].username])]_vars

\* C32 witness: of two requests in flight together one has created its post
\* and the other, of another user, then created the next one.
C32_Witness ==
    /\ Len(fake_posts_db) = SeedPosts + 2
    /\ fake_posts_db[SeedPosts + 1].author # fake_posts_db[SeedPosts + 2].author

\* ---- ApiWorker.set_operation ----

\* C33: a call of set_operation with a name outside create, read, update,
\* delete and read_all raises ValueError and leaves operation_method and data
\* as they were; a call with one of the five names raises nothing and sets
\* operation_method to the method of that name and data to the keyword
\* arguments
C33_SetOperation ==
    [][IF worker_call'.operation \in {"create", "read", "update", "delete", "read_all"}
       THEN /\ worker_call'.raised = None
            /\ operation_method' = OPERATION_METHODS[worker_call'.operation]
            /\ data' = worker_call'.kw
       ELSE /\ worker_call'.raised = ValueError
            /\ UNCHANGED <<operation_method, data>>]_vars

\* an unknown name was refused after a known one had set both fields, and
\* the refused call carried other keyword arguments
C33_Witness ==
    /\ worker_call.raised = ValueError
    /\ worker_call.operation \notin DOMAIN OPERATION_METHODS
    /\ operation_method \in {OPERATION_METHODS[o] : o \in DOMAIN OPERATION_METHODS}
    /\ data \in WorkerKwargs
    /\ data # worker_call.kw

====
